---- MODULE Spec2Model ----
(***************************************************************************)
(* A model of the workflow engine of Tred_Project/app/engine/core.py       *)
(* (GraphEngine: register_graph, run_graph, _execute, _run_node, get_run)  *)
(* and of the nodes of app/workflows/code_review.py.                       *)
(*                                                                         *)
(* Python dictionaries are functions whose domain is the set of keys that  *)
(* are present.  None is the string Null.  The tasks of the asyncio event  *)
(* loop are the run_graph calls; `active` is the task the event loop is    *)
(* running: a task keeps the loop until it suspends at an await that       *)
(* really blocks (an asynchronous node function) or until it ends.         *)
(***************************************************************************)
EXTENDS Integers, Sequences, FiniteSets, TLC

VARIABLES
    node_library,   \* GraphEngine._node_library: the names of the library
    graphs,         \* GraphEngine._graphs: graph_id -> GraphDefinition
    runs,           \* GraphEngine._runs: run_id -> GraphRunRecord
    lock,           \* GraphEngine._lock: Free or the run_graph call holding it
    frame,          \* the local variables of each run_graph call
    active,         \* the task the event loop is running, or Idle
    tools,          \* ToolRegistry._tools: the names of the registered tools
    heap,           \* the list objects that states refer to: reference -> list
    reply           \* what the step just taken handed to a caller: the outcome
                    \* of register_graph, of get_run, of a run_graph that found
                    \* no graph; NoReply when the step handed nothing

vars == <<node_library, graphs, runs, lock, frame, active, tools, heap, reply>>

-----------------------------------------------------------------------------
(* Bounds of the model *)

MaxGraphs == 1
MaxRuns == 2
MaxSteps == 12

-----------------------------------------------------------------------------
(* Python values *)

Null == "<None>"
Free == 0
Idle == 0

EmptyDict == [k \in {} |-> 0]

Has(d, k) == k \in DOMAIN d

Get(d, k, default) == IF k \in DOMAIN d THEN d[k] ELSE default

Put(d, k, v) == [x \in (DOMAIN d) \cup {k} |-> IF x = k THEN v ELSE d[x]]

Del(d, k) == [x \in (DOMAIN d) \ {k} |-> d[x]]

\* dict(d): a new dictionary with the same keys bound to the same values
DictCopy(d) == [x \in DOMAIN d |-> d[x]]

\* the truth value Python gives a node name in `while current_node:`
Truthy(name) == name /= Null /\ name /= ""

-----------------------------------------------------------------------------
(* Exceptions.  str(exc) is the message, and for a KeyError the message   *)
(* in quotes; the class of the exception is not part of it.                *)

Exc(type, msg) == [type |-> type, msg |-> msg]

NoExc == Exc(Null, Null)

Str(exc) == IF exc.type = "KeyError" THEN "'" \o exc.msg \o "'" ELSE exc.msg

-----------------------------------------------------------------------------
(* What a call of a node function gives back: a NodeResult, a plain        *)
(* dictionary, some other value, or an exception.                          *)

NodeResult(state, next_node, log) ==
    [kind |-> "NodeResult", state |-> state, next_node |-> next_node,
     log |-> log, exc |-> NoExc]

RawDict(state) ==
    [kind |-> "dict", state |-> state, next_node |-> Null, log |-> Null,
     exc |-> NoExc]

RawOther ==
    [kind |-> "int", state |-> EmptyDict, next_node |-> Null, log |-> Null,
     exc |-> NoExc]

Raised(exc) ==
    [kind |-> "raise", state |-> EmptyDict, next_node |-> Null, log |-> Null,
     exc |-> exc]

\* a node function's outcome together with the heap it leaves
Outcome(raw, hp) == [raw |-> raw, heap |-> hp]

-----------------------------------------------------------------------------
(* A node library of small node functions: the engine is handed its node   *)
(* library at construction.  A, B and C append their name to the list      *)
(* "visited" of a copy of the state; B is asynchronous and gives back a    *)
(* plain dictionary; jump names the next node after the key "goto" of the  *)
(* state; bad_int gives back an integer.                                   *)

TestLibrary == {"A", "B", "C", "jump", "bad_int"}

AsyncNodes == {"B"}

Visit(state, name) ==
    Put(DictCopy(state), "visited", Append(Get(state, "visited", <<>>), name))

TestNode(name, state, hp) ==
    CASE name \in {"A", "C"} ->
            Outcome(NodeResult(Visit(state, name), Null, name), hp)
      [] name = "B" ->
            Outcome(RawDict(Visit(state, name)), hp)
      [] name = "jump" ->
            Outcome(NodeResult(Del(Visit(state, name), "goto"),
                               Get(state, "goto", Null), name), hp)
      [] name = "bad_int" ->
            Outcome(RawOther, hp)

-----------------------------------------------------------------------------
(* The nodes of app/workflows/code_review.py.  A code is the sequence of   *)
(* its lines; of a line the model keeps the function name that the pattern *)
(* of _extract_functions_from_code finds in it (Null when it finds none),  *)
(* whether it is longer than 120 characters and whether it holds "TODO".   *)
(* Scores are in hundredths: 70 is 0.7.  The list under "suggestions" is   *)
(* an object of the heap, and the state holds the reference to it.         *)

Line(fn, long, todo) == [fn |-> fn, long |-> long, todo |-> todo]

RECURSIVE FindAll(_)
FindAll(code) ==
    IF code = <<>> THEN <<>>
    ELSE IF Head(code).fn /= Null THEN <<Head(code).fn>> \o FindAll(Tail(code))
    ELSE FindAll(Tail(code))

RECURSIVE Count(_, _)
Count(code, field) ==
    IF code = <<>> THEN 0
    ELSE (IF Head(code)[field] THEN 1 ELSE 0) + Count(Tail(code), field)

Min(a, b) == IF a <= b THEN a ELSE b

Max(a, b) == IF a >= b THEN a ELSE b

\* round(num / den): the nearest whole number, a tie going up; the codes of
\* the model have at most one function, so that no tie comes up
Round(num, den) == (2 * num + den) \div (2 * den)

\* main.detect_smells_tool
DetectSmells(code) ==
    [issues |-> Count(code, "long") + Count(code, "todo"),
     long_lines |-> Count(code, "long"), todos |-> Count(code, "todo")]

extract_functions(state, hp) ==
    LET functions == FindAll(Get(state, "code", <<>>))
        new_state == Put(Put(DictCopy(state), "functions", functions),
                         "function_count", Len(functions))
    IN Outcome(NodeResult(new_state, Null,
                          "Found " \o ToString(Len(functions)) \o " functions"), hp)

\* the sum of min(1.0, max(0.1, len(fn) / 10)) over the functions
RECURSIVE SumComplexity(_)
SumComplexity(functions) ==
    IF functions = <<>> THEN 0
    ELSE Min(100, Max(10, 10 * Len(Head(functions)))) + SumComplexity(Tail(functions))

DefaultComplexity == 10

check_complexity(state, hp) ==
    LET functions == Get(state, "functions", <<>>)
        complexity_score ==
            IF functions /= <<>>
            THEN Round(SumComplexity(functions), Max(1, Len(functions)))
            ELSE DefaultComplexity
        new_state == Put(DictCopy(state), "complexity_score", complexity_score)
    IN Outcome(NodeResult(new_state, Null,
                          "Complexity score: " \o ToString(complexity_score)), hp)

detect_issues(state, tool_names, hp) ==
    IF "detect_smells" \notin tool_names
    THEN Outcome(Raised(Exc("KeyError", "Tool 'detect_smells' is not registered")), hp)
    ELSE LET issues == DetectSmells(Get(state, "code", <<>>))
             new_state == Put(DictCopy(state), "issues", issues)
         IN Outcome(NodeResult(new_state, Null,
                               "Issues detected: " \o ToString(issues.issues)), hp)

ComplexityLimit == 70

NoIssues == [issues |-> 0]

suggest_improvements(state, hp) ==
    LET s1 == IF Get(state, "complexity_score", 0) > ComplexityLimit
              THEN <<"Reduce branching or split large functions.">> ELSE <<>>
        s2 == IF Get(state, "issues", NoIssues).issues > 0
              THEN Append(s1, "Address flagged code smells.") ELSE s1
        suggestions == IF s2 = <<>> THEN <<"Looks good, minor refactors only.">> ELSE s2
        \* new_state.setdefault("suggestions", []): the list the state has,
        \* or a new empty list
        ref == IF Has(state, "suggestions") THEN state["suggestions"]
               ELSE Cardinality(DOMAIN hp) + 1
        list == IF Has(state, "suggestions") THEN hp[ref] ELSE <<>>
        new_state == Put(DictCopy(state), "suggestions", ref)
    IN \* .extend(suggestions) changes the list itself
       Outcome(NodeResult(new_state, Null,
                          "Added " \o ToString(Len(suggestions)) \o " suggestions"),
               Put(hp, ref, list \o suggestions))

DefaultThreshold == 70

DefaultMaxIterations == 3

\* round(max(0.0, 1.0 - 0.2 * issues_count - 0.3 * complexity), 2)
QualityScore(issues_count, complexity) ==
    Round(Max(0, 1000 - 200 * issues_count - 3 * complexity), 10)

\* the stop test as it would be without the cap on the iterations
ShouldStop_ScoreOnly(quality_score, threshold, iterations, max_loops) ==
    quality_score >= threshold

\* the stop test as it would be with > in place of >= on the iterations
ShouldStop_OffByOne(quality_score, threshold, iterations, max_loops) ==
    quality_score >= threshold \/ iterations > max_loops

\* new_state["quality_score"] >= threshold or iterations >= max_loops
ShouldStop(quality_score, threshold, iterations, max_loops) ==
    quality_score >= threshold \/ iterations >= max_loops

check_quality(state, hp) ==
    LET threshold == Get(state, "quality_threshold", DefaultThreshold)
        max_loops == Get(state, "max_iterations", DefaultMaxIterations)
        iterations == Get(state, "iterations", 0) + 1
        issues_count == Get(state, "issues", NoIssues).issues
        complexity == Get(state, "complexity_score", 0)
        quality_score == QualityScore(issues_count, complexity)
        new_state == Put(Put(DictCopy(state), "quality_score", quality_score),
                         "iterations", iterations)
        log == "Quality score " \o ToString(quality_score)
                   \o " (iteration " \o ToString(iterations) \o ")"
    IN IF ShouldStop(quality_score, threshold, iterations, max_loops)
       THEN Outcome(NodeResult(new_state, Null, log \o " -> stop"), hp)
       ELSE Outcome(NodeResult(new_state, "suggest_improvements", log \o " -> continue"), hp)

\* NODE_LIBRARY
ReviewLibrary ==
    {"extract_functions", "check_complexity", "detect_issues",
     "suggest_improvements", "check_quality"}

ReviewNode(name, state, tool_names, hp) ==
    CASE name = "extract_functions" -> extract_functions(state, hp)
      [] name = "check_complexity" -> check_complexity(state, hp)
      [] name = "detect_issues" -> detect_issues(state, tool_names, hp)
      [] name = "suggest_improvements" -> suggest_improvements(state, hp)
      [] name = "check_quality" -> check_quality(state, hp)

\* the node function the library binds to a name
NodeFn(name, state, tool_names, hp) ==
    IF name \in ReviewLibrary
    THEN ReviewNode(name, state, tool_names, hp)
    ELSE TestNode(name, state, hp)

IsAsync(name) == name \in AsyncNodes

-----------------------------------------------------------------------------
(* GraphEngine._run_node: the raw value of the node function is kept when  *)
(* it is a NodeResult, wrapped when it is a dictionary, and refused with a *)
(* TypeError otherwise; an exception of the node function passes through.  *)

RunNode(raw) ==
    CASE raw.kind = "raise" -> raw
      [] raw.kind = "NodeResult" -> raw
      [] raw.kind = "dict" -> NodeResult(raw.state, Null, Null)
      [] OTHER -> Raised(Exc("TypeError", "Node must return NodeResult or dict"))

-----------------------------------------------------------------------------
(* GraphEngine.register_graph *)

\* an edge value as the caller gives it: a list of names or a single name
EdgeList(names) == [is_list |-> TRUE, val |-> names]

EdgeName(name) == [is_list |-> FALSE, val |-> name]

\* the edge value as it would be stored if a single name were dropped
NormalizeEdge_Drop(v) == IF v.is_list THEN v.val ELSE <<>>

\* v if isinstance(v, list) else [v]
NormalizeEdge(v) == IF v.is_list THEN v.val ELSE <<v.val>>

NormalizeEdges(edges) == [k \in DOMAIN edges |-> NormalizeEdge(edges[k])]

\* the first name of the list that the library does not have, or Null
RECURSIVE FirstUnknown(_, _)
FirstUnknown(nodes, library) ==
    IF nodes = <<>> THEN Null
    ELSE IF Head(nodes) \notin library THEN Head(nodes)
    ELSE FirstUnknown(Tail(nodes), library)

NodeMap(nodes) == {nodes[i] : i \in DOMAIN nodes}

\* the validation as it would be without the test of the start node
RegisterError_NoStartCheck(nodes, start_node, library) ==
    IF FirstUnknown(nodes, library) /= Null
    THEN Exc("ValueError", "Unknown node '" \o FirstUnknown(nodes, library) \o "'")
    ELSE NoExc

\* the exception register_graph raises on these arguments, or NoExc
RegisterError(nodes, start_node, library) ==
    IF FirstUnknown(nodes, library) /= Null
    THEN Exc("ValueError", "Unknown node '" \o FirstUnknown(nodes, library) \o "'")
    ELSE IF start_node \notin NodeMap(nodes)
    THEN Exc("ValueError", "Start node '" \o start_node \o "' must be in nodes list")
    ELSE NoExc

GraphDefinition(graph_id, nodes, edges, start_node) ==
    [graph_id |-> graph_id, nodes |-> NodeMap(nodes),
     edges |-> NormalizeEdges(edges), start_node |-> start_node]

\* identifiers as they would be if they were not unique
FreshId_Reused(table) == 1

\* uuid.uuid4(): an identifier no table holds yet
FreshId(table) == Cardinality(DOMAIN table) + 1

Reply(op, exc, value) == [op |-> op, exc |-> exc, value |-> value]

NoReply == Reply("none", NoExc, Null)

\* register_graph as it would be with the graph stored before the start
\* node is looked at
GraphsAfterRegister_StoreEarly(nodes, edges, start_node) ==
    IF FirstUnknown(nodes, node_library) /= Null
    THEN graphs
    ELSE Put(graphs, FreshId(graphs),
             GraphDefinition(FreshId(graphs), nodes, edges, start_node))

\* the table of graphs after register_graph
GraphsAfterRegister(nodes, edges, start_node) ==
    IF RegisterError(nodes, start_node, node_library) /= NoExc
    THEN graphs
    ELSE Put(graphs, FreshId(graphs),
             GraphDefinition(FreshId(graphs), nodes, edges, start_node))

RegisterGraph(nodes, edges, start_node) ==
    LET err == RegisterError(nodes, start_node, node_library)
    IN /\ active = Idle
       /\ lock = Free
       /\ err /= NoExc \/ Cardinality(DOMAIN graphs) < MaxGraphs
       /\ reply' = IF err /= NoExc
                   THEN Reply("register_graph", err, Null)
                   ELSE Reply("register_graph", NoExc, FreshId(graphs))
       /\ graphs' = GraphsAfterRegister(nodes, edges, start_node)
       /\ UNCHANGED <<node_library, runs, lock, frame, active, tools, heap>>

-----------------------------------------------------------------------------
(* GraphEngine.run_graph and GraphEngine._execute *)

GraphRunRecord(run_id, graph_id, current_state) ==
    [run_id |-> run_id, graph_id |-> graph_id, current_state |-> current_state,
     status |-> "running", logs |-> <<>>, current_node |-> Null, error |-> Null]

\* the reference as it would be if every caller handed over one and the
\* same list object
CallerRef_Shared(state, hp) == 1

\* the dictionary the caller hands to run_graph: a list it holds (the one
\* under "suggestions") is an object of the heap, and every call hands
\* over an object of its own (a request body is parsed afresh)
CallerRef(state, hp) == Cardinality(DOMAIN hp) + 1

CallerState(state, hp) ==
    IF Has(state, "suggestions")
    THEN Put(state, "suggestions", CallerRef(state, hp))
    ELSE state

CallerHeap(state, hp) ==
    IF Has(state, "suggestions")
    THEN Put(hp, CallerRef(state, hp), state["suggestions"])
    ELSE hp

\* the local variables of a run_graph call and of its _execute call;
\* pc is the place the call has reached; given is the initial state as
\* the caller wrote it, lists in full
Frame(graph_id, initial_state, given) ==
    [pc |-> "created", graph_id |-> graph_id, initial_state |-> initial_state,
     given |-> given, current_node |-> Null, current_state |-> EmptyDict, logs |-> <<>>,
     result |-> NodeResult(EmptyDict, Null, Null), exc |-> NoExc]

\* the lock as it would be if _execute were called inside the first
\* `async with self._lock` block
LockAfterCreate_Held(r) == r

\* the lock once run_graph has stored the new record: the first
\* `async with self._lock` block ends before _execute is called
LockAfterCreate(r) == Free

RunGraph(graph_id, initial_state) ==
    /\ active = Idle
    /\ lock = Free
    /\ IF graph_id \notin DOMAIN graphs
       THEN /\ reply' = Reply("run_graph", Exc("KeyError", "Graph '" \o ToString(graph_id) \o "' not found"), Null)
            /\ UNCHANGED <<runs, lock, frame, active, heap>>
       ELSE /\ Cardinality(DOMAIN runs) < MaxRuns
            /\ runs' = Put(runs, FreshId(runs),
                   GraphRunRecord(FreshId(runs), graph_id,
                                  DictCopy(CallerState(initial_state, heap))))
            /\ frame' = Put(frame, FreshId(runs),
                            Frame(graph_id, CallerState(initial_state, heap), initial_state))
            /\ heap' = CallerHeap(initial_state, heap)
            /\ lock' = FreshId(runs)
            /\ active' = FreshId(runs)
            /\ reply' = NoReply
    /\ UNCHANGED <<node_library, graphs, tools>>

\* the lock is released and _execute sets up its local variables
StartExecute(r) ==
    /\ active = r
    /\ r \in DOMAIN frame
    /\ frame[r].pc = "created"
    /\ lock' = LockAfterCreate(r)
    /\ frame' = [frame EXCEPT ![r] =
                    [@ EXCEPT !.pc = "loop",
                              !.current_node = graphs[frame[r].graph_id].start_node,
                              !.current_state = DictCopy(frame[r].initial_state),
                              !.logs = <<>>]]
    /\ reply' = NoReply
    /\ UNCHANGED <<node_library, graphs, runs, active, tools, heap>>

LogEntry(node, log, state) ==
    [node |-> node, log |-> log, state_snapshot |-> state]

\* the static edges as they would be if they were looked up under the
\* start node
NextCandidates_OfStart(graph, node) == Get(graph.edges, graph.start_node, <<>>)

\* graph.edges.get(current_node, [])
NextCandidates(graph, node) == Get(graph.edges, node, <<>>)

\* the successor as it would be if the static edges came first
Successor_StaticFirst(graph, node, result) ==
    IF NextCandidates(graph, node) /= <<>>
    THEN [exc |-> NoExc, node |-> NextCandidates(graph, node)[1]]
    ELSE [exc |-> NoExc, node |-> result.next_node]

\* the successor as it would be if the first of several static edges were
\* taken
Successor_FirstEdge(graph, node, result) ==
    IF result.next_node /= Null
    THEN [exc |-> NoExc, node |-> result.next_node]
    ELSE [exc |-> NoExc,
          node |-> IF NextCandidates(graph, node) /= <<>>
                   THEN NextCandidates(graph, node)[1] ELSE Null]

\* the node after `node`, whose result is `result`: the node the result
\* names, or else the single static edge, or else None; more than one
\* static edge and no named node is a ValueError
Successor(graph, node, result) ==
    IF result.next_node /= Null
    THEN [exc |-> NoExc, node |-> result.next_node]
    ELSE IF Len(NextCandidates(graph, node)) > 1
    THEN [exc |-> Exc("ValueError", "Node '" \o node \o "' has multiple edges but no next_node"),
          node |-> node]
    ELSE [exc |-> NoExc,
          node |-> IF NextCandidates(graph, node) /= <<>>
                   THEN NextCandidates(graph, node)[1] ELSE Null]

\* the rest of one round of the loop of _execute, from the raw value of the
\* node function on
Iterate(f, graph, raw) ==
    LET result == RunNode(raw) IN
    IF result.kind = "raise"
    THEN [f EXCEPT !.pc = "except", !.exc = result.exc]
    ELSE LET g == [f EXCEPT !.pc = "loop",
                            !.result = result,
                            !.logs = Append(@, LogEntry(f.current_node, result.log, result.state)),
                            !.current_state = result.state]
             next == Successor(graph, f.current_node, result)
         IN IF next.exc /= NoExc
            THEN [g EXCEPT !.pc = "except", !.exc = next.exc]
            ELSE [g EXCEPT !.current_node = next.node]

\* the table of runs as it would be if the loop wrote its progress into the
\* record of the run
RunsAfterRound_Live(r, f) ==
    [runs EXCEPT ![r] = [@ EXCEPT !.logs = f.logs, !.current_state = f.current_state,
                                  !.current_node = f.current_node]]

\* the table of runs after a round of the loop of run r, whose frame is
\* then f: the loop assigns to its local variables only
RunsAfterRound(r, f) == runs

\* the state as it would be if the engine kept one working state for all
\* its runs
NodeInput_Shared(r) == frame[CHOOSE x \in DOMAIN frame : \A y \in DOMAIN frame : x <= y].current_state

\* the state the node function of run r is called with: the local
\* variable current_state of its own _execute call
NodeInput(r) == frame[r].current_state

\* one round of the loop: the node function is looked up and called; a
\* synchronous node gives its value at once, an asynchronous one suspends
\* the task
ExecNode(r) ==
    /\ active = r
    /\ r \in DOMAIN frame
    /\ frame[r].pc = "loop"
    /\ Truthy(frame[r].current_node)
    /\ Len(frame[r].logs) < MaxSteps
    /\ LET f == frame[r]
           graph == graphs[f.graph_id]
       IN IF f.current_node \notin graph.nodes
          THEN /\ frame' = [frame EXCEPT ![r] =
                      [f EXCEPT !.pc = "except",
                                !.exc = Exc("KeyError", f.current_node)]]
               /\ UNCHANGED <<active, heap>>
          ELSE IF IsAsync(f.current_node)
          THEN /\ frame' = [frame EXCEPT ![r] = [f EXCEPT !.pc = "awaiting"]]
               /\ active' = Idle
               /\ UNCHANGED heap
          ELSE LET out == NodeFn(f.current_node, NodeInput(r), tools, heap)
               IN /\ frame' = [frame EXCEPT ![r] = Iterate(f, graph, out.raw)]
                  /\ heap' = out.heap
                  /\ UNCHANGED active
    /\ runs' = RunsAfterRound(r, frame'[r])
    /\ reply' = NoReply
    /\ UNCHANGED <<node_library, graphs, lock, tools>>

\* the awaited node function ends and the task goes on
ResumeNode(r) ==
    /\ active = Idle
    /\ r \in DOMAIN frame
    /\ frame[r].pc = "awaiting"
    /\ LET f == frame[r]
           out == NodeFn(f.current_node, NodeInput(r), tools, heap)
       IN /\ frame' = [frame EXCEPT ![r] = Iterate(f, graphs[f.graph_id], out.raw)]
          /\ heap' = out.heap
    /\ runs' = RunsAfterRound(r, frame'[r])
    /\ active' = r
    /\ reply' = NoReply
    /\ UNCHANGED <<node_library, graphs, lock, tools>>

\* `while current_node:` ends the loop and _execute returns
ReturnExecute(r) ==
    /\ active = r
    /\ r \in DOMAIN frame
    /\ frame[r].pc = "loop"
    /\ ~Truthy(frame[r].current_node)
    /\ frame' = [frame EXCEPT ![r] = [@ EXCEPT !.pc = "finish"]]
    /\ reply' = NoReply
    /\ UNCHANGED <<node_library, graphs, runs, lock, active, tools, heap>>

\* the completed record as it would be without the logs
CompletedRecord_NoLogs(run, f) ==
    [run EXCEPT !.status = "completed", !.current_state = f.current_state,
                !.current_node = Null]

\* the record of a run whose _execute returned
CompletedRecord(run, f) ==
    [run EXCEPT !.status = "completed", !.current_state = f.current_state,
                !.logs = f.logs, !.current_node = Null]

\* the failed record as it would be if it took the state of the last node
FailedRecord_WithState(run, f) ==
    [run EXCEPT !.status = "failed", !.error = Str(f.exc),
                !.current_state = f.current_state]

\* the failed record as it would be without the message
FailedRecord_NoError(run, f) ==
    [run EXCEPT !.status = "failed"]

\* the record of a run whose _execute raised
FailedRecord(run, f) ==
    [run EXCEPT !.status = "failed", !.error = Str(f.exc)]

Complete(r) ==
    /\ active = r
    /\ r \in DOMAIN frame
    /\ frame[r].pc = "finish"
    /\ lock = Free
    /\ runs' = [runs EXCEPT ![r] = CompletedRecord(@, frame[r])]
    /\ frame' = [frame EXCEPT ![r] = [@ EXCEPT !.pc = "returned"]]
    /\ active' = Idle
    /\ reply' = NoReply
    /\ UNCHANGED <<node_library, graphs, lock, tools, heap>>

Fail(r) ==
    /\ active = r
    /\ r \in DOMAIN frame
    /\ frame[r].pc = "except"
    /\ lock = Free
    /\ runs' = [runs EXCEPT ![r] = FailedRecord(@, frame[r])]
    /\ frame' = [frame EXCEPT ![r] = [@ EXCEPT !.pc = "raised"]]
    /\ active' = Idle
    /\ reply' = NoReply
    /\ UNCHANGED <<node_library, graphs, lock, tools, heap>>

-----------------------------------------------------------------------------
(* GraphEngine.get_run *)

GetRun(run_id) ==
    /\ active = Idle
    /\ lock = Free
    /\ reply' = IF run_id \in DOMAIN runs
                THEN Reply("get_run", NoExc, runs[run_id])
                ELSE Reply("get_run", Exc("KeyError", "Run '" \o ToString(run_id) \o "' not found"), Null)
    /\ UNCHANGED <<node_library, graphs, runs, lock, frame, active, tools, heap>>

-----------------------------------------------------------------------------
(* The arguments the callers give *)

\* the chain of the nodes A, B, C
ChainGraphs ==
    { [nodes |-> <<"A", "B", "C">>,
       edges |-> ("A" :> EdgeList(<<"B">>)) @@ ("B" :> EdgeList(<<"C">>))
                     @@ ("C" :> EdgeList(<<>>)),
       start_node |-> "A"] }

\* graphs that start at jump, whose static edges are none, one (given as a
\* single name) or two; in the first the node after C gives back an
\* integer, in the second the edge out of B names a node the graph does not
\* have
JumpGraphs ==
    { [nodes |-> <<"jump", "C", "bad_int">>,
       edges |-> ("C" :> EdgeList(<<"bad_int">>)),
       start_node |-> "jump"],
      [nodes |-> <<"jump", "A", "B", "C">>,
       edges |-> ("jump" :> EdgeName("B")) @@ ("B" :> EdgeList(<<"ghost">>)),
       start_node |-> "jump"],
      [nodes |-> <<"jump", "A", "B", "C">>,
       edges |-> ("jump" :> EdgeList(<<"B", "C">>)),
       start_node |-> "jump"] }

\* graphs register_graph refuses: a node the library does not have, a start
\* node that is not among the nodes
BadGraphs ==
    { [nodes |-> <<"A", "ghost">>, edges |-> ("A" :> EdgeList(<<"ghost">>)), start_node |-> "A"],
      [nodes |-> <<"A", "B">>, edges |-> ("A" :> EdgeList(<<"B">>)), start_node |-> "C"] }

\* the graph of main._ensure_default_graph
DefaultGraph ==
    [nodes |-> <<"extract_functions", "check_complexity", "detect_issues",
                 "suggest_improvements", "check_quality">>,
     edges |-> [extract_functions |-> EdgeList(<<"check_complexity">>),
                check_complexity |-> EdgeList(<<"detect_issues">>),
                detect_issues |-> EdgeList(<<"suggest_improvements">>),
                suggest_improvements |-> EdgeList(<<"check_quality">>),
                check_quality |-> EdgeList(<<>>)],
     start_node |-> "extract_functions"]

GraphInputs ==
    ChainGraphs \cup JumpGraphs \cup BadGraphs \cup {DefaultGraph}

\* a code with two smells (a TODO line and a long line) and a code with one
\* function of a long name
SmellyCode == <<Line(Null, FALSE, TRUE), Line(Null, TRUE, FALSE)>>

LongNameCode == <<Line("handle_request", FALSE, FALSE)>>

\* the initial states given to the graphs of the nodes A, B, C, jump
TestStates ==
    { EmptyDict,
      [goto |-> "C"],
      [goto |-> ""] }

\* the initial states given to the code review graph
ReviewStates ==
    { EmptyDict,
      [code |-> SmellyCode, max_iterations |-> 3],
      [code |-> SmellyCode, iterations |-> 1, suggestions |-> <<"Earlier suggestion.">>],
      [code |-> LongNameCode, max_iterations |-> 1],
      [code |-> SmellyCode, iterations |-> 3, max_iterations |-> 2] }

StateInputs == IF node_library = ReviewLibrary THEN ReviewStates ELSE TestStates

-----------------------------------------------------------------------------

\* the engine is built with one of the two libraries; main registers the
\* tool detect_smells, an engine built elsewhere may have no tool
Init ==
    /\ node_library \in {TestLibrary, ReviewLibrary}
    /\ tools \in {{"detect_smells"}, {}}
    /\ node_library = TestLibrary => tools = {"detect_smells"}
    /\ graphs = EmptyDict
    /\ runs = EmptyDict
    /\ lock = Free
    /\ frame = EmptyDict
    /\ active = Idle
    /\ heap = EmptyDict
    /\ reply = NoReply

Next ==
    \/ \E g \in GraphInputs : RegisterGraph(g.nodes, g.edges, g.start_node)
    \/ \E graph_id \in 1..(Cardinality(DOMAIN graphs) + 1), s \in StateInputs :
          RunGraph(graph_id, s)
    \/ \E r \in 1..MaxRuns : StartExecute(r)
    \/ \E r \in 1..MaxRuns : ExecNode(r)
    \/ \E r \in 1..MaxRuns : ResumeNode(r)
    \/ \E r \in 1..MaxRuns : ReturnExecute(r)
    \/ \E r \in 1..MaxRuns : Complete(r)
    \/ \E r \in 1..MaxRuns : Fail(r)
    \/ \E run_id \in 1..(Cardinality(DOMAIN runs) + 1) : GetRun(run_id)

Spec == Init /\ [][Next]_vars

\* the engine of main: the library of code_review.py, none of whose nodes
\* is asynchronous, so that no run is ever suspended in a node
ReviewInit == Init /\ node_library = ReviewLibrary

\* a step of a run_graph call that has created its record
RunStep ==
    \E r \in 1..MaxRuns :
        \/ StartExecute(r) \/ ExecNode(r) \/ ReturnExecute(r)
        \/ Complete(r) \/ Fail(r)

ReviewNext ==
    \/ \E g \in GraphInputs : RegisterGraph(g.nodes, g.edges, g.start_node)
    \/ \E graph_id \in 1..(Cardinality(DOMAIN graphs) + 1), s \in StateInputs :
          RunGraph(graph_id, s)
    \/ RunStep
    \/ \E run_id \in 1..(Cardinality(DOMAIN runs) + 1) : GetRun(run_id)

\* the event loop goes on running a task that is ready to run
FairSpec == ReviewInit /\ [][ReviewNext]_vars /\ WF_vars(RunStep)

-----------------------------------------------------------------------------
(* Claims *)

Last(seq) == seq[Len(seq)]

\* the static edges a stored graph has for a node
StaticEdges(graph, node) == IF node \in DOMAIN graph.edges THEN graph.edges[node] ELSE <<>>

Invalid(g) == RegisterError(g.nodes, g.start_node, node_library) /= NoExc

\* C1: a register_graph call that names a node the library does not have,
\* or a start node that is not among its nodes, fails with the validation
\* error (ValueError) and leaves the table of graphs exactly as it was,
\* whatever calls came before it and whatever runs are under way.
C1_RegistrationValidation ==
    [][\A g \in GraphInputs :
         (RegisterGraph(g.nodes, g.edges, g.start_node) /\ Invalid(g))
             => /\ graphs' = graphs
                /\ reply'.op = "register_graph"
                /\ reply'.exc.type = "ValueError"]_vars

\* a refused registration has just returned while a graph is stored and a
\* run is suspended in a node
C1_Witness ==
    /\ reply.op = "register_graph"
    /\ reply.exc.type = "ValueError"
    /\ DOMAIN graphs /= {}
    /\ \E r \in DOMAIN frame : frame[r].pc = "awaiting"

\* C2: a run_graph call that has raised left its record with status failed
\* and with the message of the very exception it raised as error, and the
\* record is in the table get_run reads; a call whose execution failed
\* never returns normally.
C2_FailureRecorded ==
    \A r \in DOMAIN frame :
        /\ frame[r].pc = "raised" =>
              /\ r \in DOMAIN runs
              /\ runs[r].status = "failed"
              /\ runs[r].error /= Null
              /\ runs[r].error = Str(frame[r].exc)
              /\ frame[r].exc.type \in {"TypeError", "ValueError", "KeyError"}
        /\ frame[r].exc /= NoExc => frame[r].pc \in {"except", "raised"}

\* get_run has just shown the failed record of a run whose node gave back
\* an integer
C2_Witness ==
    /\ reply.op = "get_run"
    /\ reply.exc = NoExc
    /\ reply.value.status = "failed"
    /\ reply.value.error = "Node must return NodeResult or dict"
    /\ frame[reply.value.run_id].pc = "raised"
    /\ frame[reply.value.run_id].exc.type = "TypeError"

\* C3: a record is created with status running; no record is ever removed;
\* a status changes only from running, and only to completed or failed, so
\* a completed or failed record keeps its status for ever.
C3_StatusOnce ==
    [][/\ DOMAIN runs \subseteq DOMAIN runs'
       /\ \A r \in DOMAIN runs' \ DOMAIN runs : runs'[r].status = "running"
       /\ \A r \in DOMAIN runs :
             runs'[r].status /= runs[r].status
                 => /\ runs[r].status = "running"
                    /\ runs'[r].status \in {"completed", "failed"}]_vars

\* a second run of the same graph was created after the first one completed
\* and has itself ended
C3_Witness ==
    /\ {1, 2} \subseteq DOMAIN runs
    /\ runs[1].status = "completed"
    /\ runs[2].status = "failed"
    /\ runs[1].graph_id = runs[2].graph_id

\* _execute run with nothing else going on, for at most n rounds of its
\* loop: the frame and the heap it has reached then
RECURSIVE RunAlone(_, _, _, _)
RunAlone(f, graph, hp, n) ==
    IF f.pc /= "loop" \/ n = 0 THEN [frame |-> f, heap |-> hp]
    ELSE IF ~Truthy(f.current_node) THEN [frame |-> [f EXCEPT !.pc = "finish"], heap |-> hp]
    ELSE IF f.current_node \notin graph.nodes
    THEN [frame |-> [f EXCEPT !.pc = "except", !.exc = Exc("KeyError", f.current_node)],
          heap |-> hp]
    ELSE LET out == NodeFn(f.current_node, f.current_state, tools, hp)
         IN RunAlone(Iterate(f, graph, out.raw), graph, out.heap, n - 1)

\* the run of the graph from the state the caller gave, alone, n rounds
Alone(graph, given, n) ==
    RunAlone([Frame(graph.graph_id, CallerState(given, EmptyDict), given) EXCEPT
                  !.pc = "loop",
                  !.current_node = graph.start_node,
                  !.current_state = DictCopy(CallerState(given, EmptyDict))],
             graph, CallerHeap(given, EmptyDict), n)

\* a state with the list it refers to in place of the reference
Deref(state, hp) ==
    IF Has(state, "suggestions")
    THEN Put(state, "suggestions", hp[state["suggestions"]])
    ELSE state

DerefLogs(logs, hp) ==
    [i \in 1..Len(logs) |->
        [logs[i] EXCEPT !.state_snapshot = Deref(logs[i].state_snapshot, hp)]]

NodesOf(logs) == [i \in 1..Len(logs) |-> logs[i].node]

IsPrefix(s, t) == Len(s) <= Len(t) /\ \A i \in 1..Len(s) : s[i] = t[i]

\* C4: every run has a record of its own, under its own run_id; after any
\* number of rounds of its loop a run has run the nodes, and holds the
\* state, that the same graph has after as many rounds from the same
\* initial state when it runs alone, so no node is ever handed a state of
\* another run; and the record of an ended run holds the final state and
\* the logs (or the error) of the run alone.
C4_RunIsolation ==
    \A r \in DOMAIN frame :
        LET f == frame[r]
            graph == graphs[f.graph_id]
            now == Alone(graph, f.given, Len(f.logs))
            end == Alone(graph, f.given, MaxSteps + 2)
        IN /\ r \in DOMAIN runs
           /\ runs[r].run_id = r
           /\ \A q \in DOMAIN runs : q /= r => runs[q].run_id /= runs[r].run_id
           /\ f.pc \in {"loop", "awaiting", "finish", "except"} =>
                 /\ NodesOf(f.logs) = NodesOf(now.frame.logs)
                 /\ Deref(f.current_state, heap) = Deref(now.frame.current_state, now.heap)
           /\ f.pc = "returned" =>
                 /\ end.frame.pc = "finish"
                 /\ runs[r].status = "completed"
                 /\ Deref(runs[r].current_state, heap)
                        = Deref(end.frame.current_state, end.heap)
                 /\ DerefLogs(runs[r].logs, heap) = DerefLogs(end.frame.logs, end.heap)
           /\ f.pc = "raised" =>
                 /\ end.frame.pc = "except"
                 /\ runs[r].status = "failed"
                 /\ runs[r].error = Str(end.frame.exc)

\* two runs of one graph from different initial states overlap: run 2 was
\* created, ran and completed while run 1 is suspended in a node
C4_Witness ==
    /\ {1, 2} \subseteq DOMAIN runs
    /\ runs[1].graph_id = runs[2].graph_id
    /\ frame[1].given /= frame[2].given
    /\ frame[1].pc = "awaiting"
    /\ frame[1].logs /= <<>>
    /\ runs[2].status = "completed"
    /\ Len(runs[2].logs) = 3

\* C5: a run that is in its loop, calling a node or suspended in one, does
\* not hold the lock; and while a run is suspended in a node and the event
\* loop is free, the lock is free, so that register_graph, get_run and the
\* record creation of run_graph can each take it and finish.
C5_LockFreeDuringNodes ==
    \A r \in DOMAIN frame :
        /\ frame[r].pc \in {"loop", "awaiting"} => lock /= r
        /\ (frame[r].pc = "awaiting" /\ active = Idle) =>
              /\ lock = Free
              /\ ENABLED GetRun(r)
              /\ \A g \in GraphInputs :
                    (Invalid(g) \/ Cardinality(DOMAIN graphs) < MaxGraphs)
                        => ENABLED RegisterGraph(g.nodes, g.edges, g.start_node)
              /\ \A graph_id \in DOMAIN graphs, s \in StateInputs :
                    Cardinality(DOMAIN runs) < MaxRuns => ENABLED RunGraph(graph_id, s)

\* while run 1 is suspended in a node, a second run was created and get_run
\* has returned the record of run 1
C5_Witness ==
    /\ 1 \in DOMAIN frame
    /\ frame[1].pc = "awaiting"
    /\ 2 \in DOMAIN runs
    /\ reply.op = "get_run"
    /\ reply.exc = NoExc
    /\ reply.value.run_id = 1
    /\ reply.value.status = "running"

\* C6: in a round of the loop that has run a node, the node run is the
\* current node of the loop; when its result names a next node, that name
\* becomes the current node of the loop whatever the static edges of the
\* node are, so that the next node run, if one is run, is the named one;
\* the static edges decide only when the result names none.
C6_DynamicOverride ==
    [][\A r \in DOMAIN frame :
         (r \in DOMAIN frame' /\ Len(frame'[r].logs) = Len(frame[r].logs) + 1) =>
             LET node == frame[r].current_node
                 result == frame'[r].result
                 static == StaticEdges(graphs[frame[r].graph_id], node)
             IN /\ Last(frame'[r].logs).node = node
                /\ result.next_node /= Null =>
                      /\ frame'[r].pc = "loop"
                      /\ frame'[r].current_node = result.next_node
                /\ (result.next_node = Null /\ frame'[r].pc = "loop") =>
                      frame'[r].current_node =
                          IF static = <<>> THEN Null ELSE static[1]]_vars

\* a run of the graph whose node jump has the static edges B and C has run
\* jump, which named C, and then C
C6_Witness ==
    \E r \in DOMAIN frame :
        /\ StaticEdges(graphs[frame[r].graph_id], "jump") = <<"B", "C">>
        /\ NodesOf(frame[r].logs) = <<"jump", "C">>
        /\ runs[r].status = "completed"

AmbiguousEdge(node) ==
    Exc("ValueError", "Node '" \o node \o "' has multiple edges but no next_node")

\* C7: when the node last run has more than one static edge and its result
\* names no next node, the run is in the failure branch with the error that
\* names that node; a run in the failure branch runs no further node; and
\* the record of the run that has raised is failed, with that message.
C7_AmbiguousEdgeFails ==
    /\ [](\A r \in DOMAIN frame :
            LET f == frame[r] IN
            (/\ f.logs /= <<>>
             /\ f.result.next_node = Null
             /\ Len(StaticEdges(graphs[f.graph_id], Last(f.logs).node)) > 1)
            => /\ f.pc \in {"except", "raised"}
               /\ f.exc = AmbiguousEdge(Last(f.logs).node)
               /\ f.pc = "raised" =>
                     /\ runs[r].status = "failed"
                     /\ runs[r].error = Str(AmbiguousEdge(Last(f.logs).node)))
    /\ [][\A r \in DOMAIN frame :
            frame[r].pc \in {"except", "raised"} =>
                /\ frame'[r].logs = frame[r].logs
                /\ frame'[r].pc \in {"except", "raised"}]_vars

\* the run of the graph whose node jump has the static edges B and C has
\* failed at jump, which named no next node
C7_Witness ==
    \E r \in DOMAIN frame :
        /\ StaticEdges(graphs[frame[r].graph_id], "jump") = <<"B", "C">>
        /\ NodesOf(frame[r].logs) = <<"jump">>
        /\ frame[r].pc = "raised"
        /\ runs[r].status = "failed"
        /\ runs[r].error = "Node 'jump' has multiple edges but no next_node"

\* the nodes from `node` on along the single static edges, at most n of them
RECURSIVE Follow(_, _, _)
Follow(graph, node, n) ==
    IF n = 0 \/ node \notin graph.nodes THEN <<>>
    ELSE IF StaticEdges(graph, node) = <<>> THEN <<node>>
    ELSE <<node>> \o Follow(graph, StaticEdges(graph, node)[1], n - 1)

ChainOrder(graph) == Follow(graph, graph.start_node, Cardinality(graph.nodes))

\* the static edges form a chain of nodes that name no next node: from the
\* start node on, every node has one successor in the graph, but for the
\* last, which has none, and no node comes twice
IsChain(graph) ==
    /\ graph.nodes \subseteq {"A", "B", "C"}
    /\ \A n \in graph.nodes :
          /\ Len(StaticEdges(graph, n)) <= 1
          /\ \A i \in DOMAIN StaticEdges(graph, n) :
                StaticEdges(graph, n)[i] \in graph.nodes
    /\ LET order == ChainOrder(graph)
       IN /\ StaticEdges(graph, Last(order)) = <<>>
          /\ \A i, j \in DOMAIN order : order[i] = order[j] => i = j

\* C8: a run of a chain runs the nodes of the chain in chain order from the
\* start node on, each once, and does not fail; the record of the run that
\* has returned is completed, its logs have one entry for each node of the
\* chain in that order, and its final state is the state the last node
\* gave, which holds the names of the chain in "visited".
C8_LinearExecution ==
    \A r \in DOMAIN frame :
        LET f == frame[r]
            graph == graphs[f.graph_id]
            order == ChainOrder(graph)
        IN IsChain(graph) =>
              /\ IsPrefix(NodesOf(f.logs), order)
              /\ f.pc \notin {"except", "raised"}
              /\ f.pc = "returned" =>
                    /\ runs[r].status = "completed"
                    /\ NodesOf(runs[r].logs) = order
                    /\ runs[r].current_state = Last(runs[r].logs).state_snapshot
                    /\ runs[r].current_state =
                          Put(f.initial_state, "visited",
                              Get(f.initial_state, "visited", <<>>) \o order)

\* the chain A, B, C run from the empty state has completed with
\* visited = A, B, C and three log entries
C8_Witness ==
    \E r \in DOMAIN runs :
        /\ IsChain(graphs[runs[r].graph_id])
        /\ frame[r].initial_state = EmptyDict
        /\ runs[r].status = "completed"
        /\ runs[r].current_state = [visited |-> <<"A", "B", "C">>]
        /\ NodesOf(runs[r].logs) = <<"A", "B", "C">>

\* the number of entries of the logs that are of the node
RECURSIVE Passes(_, _)
Passes(logs, node) ==
    IF logs = <<>> THEN 0
    ELSE (IF Head(logs).node = node THEN 1 ELSE 0) + Passes(Tail(logs), node)

\* the run is of the code review graph of main, with the tool registered,
\* from a state with max_iterations = 3 and no iterations yet, and no pass
\* of check_quality so far has found a score that reaches the threshold
CappedRun(f) ==
    /\ node_library = ReviewLibrary
    /\ "detect_smells" \in tools
    /\ graphs[f.graph_id] =
          GraphDefinition(f.graph_id, DefaultGraph.nodes, DefaultGraph.edges,
                          DefaultGraph.start_node)
    /\ Has(f.given, "max_iterations")
    /\ f.given["max_iterations"] = 3
    /\ ~Has(f.given, "iterations")
    /\ \A i \in DOMAIN f.logs :
          f.logs[i].node = "check_quality" =>
              f.logs[i].state_snapshot["quality_score"]
                  < Get(f.logs[i].state_snapshot, "quality_threshold", DefaultThreshold)

\* C9: such a run never fails and never makes a fourth pass of
\* check_quality; a pass before the third sends it back to
\* suggest_improvements, the third ends the loop; and the record of the run
\* that has returned is completed after exactly 3 passes, with
\* iterations = 3.
C9_IterationCap ==
    \A r \in DOMAIN frame :
        LET f == frame[r] IN
        (f.pc /= "created" /\ CappedRun(f)) =>
            /\ f.pc \notin {"except", "raised"}
            /\ Passes(f.logs, "check_quality") <= 3
            /\ (f.logs /= <<>> /\ Last(f.logs).node = "check_quality") =>
                  f.current_node =
                      IF Passes(f.logs, "check_quality") = 3 THEN Null
                      ELSE "suggest_improvements"
            /\ f.pc \in {"finish", "returned"} => Passes(f.logs, "check_quality") = 3
            /\ f.pc = "returned" =>
                  /\ runs[r].status = "completed"
                  /\ Passes(runs[r].logs, "check_quality") = 3
                  /\ runs[r].current_state["iterations"] = 3

\* such a run has completed: 9 nodes were run, 3 of them check_quality
C9_Witness ==
    \E r \in DOMAIN frame :
        /\ frame[r].pc = "returned"
        /\ CappedRun(frame[r])
        /\ runs[r].status = "completed"
        /\ Len(runs[r].logs) = 9
        /\ Passes(runs[r].logs, "check_quality") = 3
        /\ Passes(runs[r].logs, "suggest_improvements") = 3

\* C10 as it is stated: the state of a failed record is the state the last
\* successful node gave (the initial state when no node succeeded).
C10_StateOfLastNode ==
    \A r \in DOMAIN frame :
        runs[r].status = "failed" =>
            runs[r].current_state =
                IF frame[r].logs = <<>> THEN DictCopy(frame[r].initial_state)
                ELSE Last(frame[r].logs).state_snapshot

\* C10 amended: the state of a failed record is still the copy of the
\* initial state made when the record was created, however many nodes
\* succeeded before the failure, and its logs are still empty.
C10_FailedKeepsInitialState ==
    \A r \in DOMAIN frame :
        runs[r].status = "failed" =>
            /\ runs[r].current_state = DictCopy(frame[r].initial_state)
            /\ runs[r].logs = <<>>
            /\ runs[r].current_node = Null

\* a run has failed after a node had succeeded and had changed the state
C10_Witness ==
    \E r \in DOMAIN frame :
        /\ runs[r].status = "failed"
        /\ frame[r].logs /= <<>>
        /\ Last(frame[r].logs).state_snapshot /= frame[r].initial_state
        /\ runs[r].current_state = frame[r].initial_state

Running(r) == r \in DOMAIN frame /\ frame[r].pc \notin {"returned", "raised"}

\* C12: the record of a run that is under way has status running, no
\* current node, no logs and no error, however many nodes have run;
\* whenever another caller can run, get_run on the run_id can be called
\* and the state of the record is the initial state as the caller gave it;
\* and what get_run has returned for such a run is that record.
C12_OpaqueWhileRunning ==
    /\ \A r \in DOMAIN frame :
          Running(r) =>
              /\ r \in DOMAIN runs
              /\ runs[r].status = "running"
              /\ runs[r].current_node = Null
              /\ runs[r].logs = <<>>
              /\ runs[r].error = Null
              /\ (active = Idle /\ lock = Free) =>
                    /\ ENABLED GetRun(r)
                    /\ Deref(runs[r].current_state, heap) = frame[r].given
    /\ (reply.op = "get_run" /\ reply.exc = NoExc /\ Running(reply.value.run_id)) =>
          /\ reply.value.status = "running"
          /\ reply.value.current_node = Null
          /\ reply.value.logs = <<>>
          /\ Deref(reply.value.current_state, heap) = frame[reply.value.run_id].given

\* get_run has returned the record of a run that is suspended in its
\* second node: the first node has changed the state and has logged
C12_Witness ==
    /\ reply.op = "get_run"
    /\ reply.exc = NoExc
    /\ frame[reply.value.run_id].pc = "awaiting"
    /\ Len(frame[reply.value.run_id].logs) = 1
    /\ frame[reply.value.run_id].current_state /= frame[reply.value.run_id].initial_state
    /\ reply.value.logs = <<>>

\* NotFound is the KeyError of Python: main answers 404 to it
NotFound(exc) == exc.type = "KeyError"

\* C13: a run_graph call that found no graph under graph_id has raised
\* NotFound and has created no record; and a run_graph call that has
\* created a record never raises NotFound, whatever fails while its graph
\* executes.
C13_NotFoundIffUnknownGraph ==
    /\ reply.op = "run_graph" => NotFound(reply.exc)
    /\ \A r \in DOMAIN frame :
          frame[r].pc = "raised" => ~NotFound(frame[r].exc)

\* the edges with every single name written as the list of that name
Listify(edges) ==
    [k \in DOMAIN edges |->
        IF edges[k].is_list THEN edges[k] ELSE EdgeList(<<edges[k].val>>)]

HasBareName(g) == \E k \in DOMAIN g.edges : ~g.edges[k].is_list

\* C14: a run of a graph that was registered with an edge given as a single
\* name runs the nodes, in the same order, that the graph registered with
\* the one-element list runs from the same initial state; it ends as that
\* graph ends, with the same logs and the same final state, or with the
\* same error.
C14_EdgeNormalization ==
    \A r \in DOMAIN frame :
        \A g \in {h \in GraphInputs : HasBareName(h)} :
            LET f == frame[r]
                twin == GraphDefinition(f.graph_id, g.nodes, Listify(g.edges), g.start_node)
                end == Alone(twin, f.given, MaxSteps + 2)
            IN (/\ graphs[f.graph_id]
                       = GraphDefinition(f.graph_id, g.nodes, g.edges, g.start_node)
                /\ ~Invalid(g))
               => /\ f.pc \in {"loop", "awaiting", "finish", "except"} =>
                        IsPrefix(NodesOf(f.logs), NodesOf(end.frame.logs))
                  /\ f.pc = "returned" =>
                        /\ end.frame.pc = "finish"
                        /\ Deref(runs[r].current_state, heap)
                               = Deref(end.frame.current_state, end.heap)
                        /\ DerefLogs(runs[r].logs, heap)
                               = DerefLogs(end.frame.logs, end.heap)
                  /\ f.pc = "raised" =>
                        /\ end.frame.pc = "except"
                        /\ NodesOf(f.logs) = NodesOf(end.frame.logs)
                        /\ runs[r].error = Str(end.frame.exc)

\* a run of the graph registered with jump -> "B" went from jump to B
\* along that edge and has ended
C14_Witness ==
    \E r \in DOMAIN frame :
        \E g \in {h \in GraphInputs : HasBareName(h)} :
            /\ graphs[frame[r].graph_id]
                   = GraphDefinition(frame[r].graph_id, g.nodes, g.edges, g.start_node)
            /\ NodesOf(frame[r].logs) = <<"jump", "B">>
            /\ frame[r].pc = "raised"

\* C15: at every round of the loop of a run, a current node that is the
\* start node or was reached through a static edge is one of the nodes of
\* the graph, so that the lookup of its function does not fail.
C15_CurrentNodeInGraph ==
    \A r \in DOMAIN frame :
        LET f == frame[r] IN
        (/\ f.pc = "loop"
         /\ Truthy(f.current_node)
         /\ f.logs = <<>> \/ f.result.next_node = Null)
        => f.current_node \in graphs[f.graph_id].nodes

\* C16: the state_snapshot of a log entry is the state the loop holds right
\* after the node of the entry ran, and no later step changes an entry that
\* has been appended: its snapshot, lists in full, stays as it was.
C16_SnapshotsStay ==
    /\ [](\A r \in DOMAIN frame :
            (frame[r].pc = "loop" /\ frame[r].logs /= <<>>)
                => Last(frame[r].logs).state_snapshot = frame[r].current_state)
    /\ [][\A r \in DOMAIN frame :
            \A i \in DOMAIN frame[r].logs :
                /\ i \in DOMAIN frame'[r].logs
                /\ DerefLogs(frame'[r].logs, heap')[i] = DerefLogs(frame[r].logs, heap)[i]]_vars

\* C17: while a run is under way the state of its record is the initial
\* state as the caller gave it, lists in full, whatever the nodes do to
\* the state they are handed; and the initial_state of the caller is, at
\* all times, as the caller gave it.
C17_RecordHoldsDeepCopy ==
    \A r \in DOMAIN frame :
        /\ Running(r) => Deref(runs[r].current_state, heap) = frame[r].given
        /\ Deref(frame[r].initial_state, heap) = frame[r].given

\* the run is of the code review graph of main
OfDefaultGraph(f) ==
    graphs[f.graph_id] =
        GraphDefinition(f.graph_id, DefaultGraph.nodes, DefaultGraph.edges,
                        DefaultGraph.start_node)

C19_ReviewRunEnds ==
    /\ []<>(\A r \in DOMAIN frame :
                OfDefaultGraph(frame[r]) => runs[r].status \in {"completed", "failed"})
    /\ [](\A r \in DOMAIN frame :
            OfDefaultGraph(frame[r]) =>
                Passes(frame[r].logs, "check_quality")
                    <= Max(1, Get(frame[r].given, "max_iterations", DefaultMaxIterations)
                               - Get(frame[r].given, "iterations", 0)))

\* a run that started with iterations = 1 has completed after 2 passes of
\* check_quality, and one that started with iterations = 3 and
\* max_iterations = 2 after 1 pass
C19_Witness ==
    /\ {1, 2} \subseteq DOMAIN runs
    /\ OfDefaultGraph(frame[1])
    /\ OfDefaultGraph(frame[2])
    /\ frame[1].given = [code |-> SmellyCode, iterations |-> 1,
                         suggestions |-> <<"Earlier suggestion.">>]
    /\ runs[1].status = "completed"
    /\ Passes(runs[1].logs, "check_quality") = 2
    /\ frame[2].given = [code |-> SmellyCode, iterations |-> 3, max_iterations |-> 2]
    /\ runs[2].status = "completed"
    /\ Passes(runs[2].logs, "check_quality") = 1

\* C20: a completed record has at least one log entry, its logs are the
\* entries the loop appended, one for each node it ran, in that order, its
\* state is the snapshot of its last entry, and its current_node and error
\* are null; a failed record has an error.
C20_RecordShape ==
    \A r \in DOMAIN runs :
        /\ runs[r].status = "completed" =>
              /\ Len(runs[r].logs) >= 1
              /\ runs[r].logs = frame[r].logs
              /\ runs[r].current_state = Last(runs[r].logs).state_snapshot
              /\ runs[r].current_node = Null
              /\ runs[r].error = Null
        /\ runs[r].status = "failed" => runs[r].error /= Null

\* a run has completed after more than one node, and another has failed
\* after a node had run
C20_Witness ==
    \E r, q \in DOMAIN runs :
        /\ runs[r].status = "completed"
        /\ Len(runs[r].logs) > 1
        /\ runs[q].status = "failed"
        /\ frame[q].logs /= <<>>
        /\ runs[q].error /= Null

====
